---- MODULE Spec2Model ----
(***************************************************************************)
(* Model of patch_cursor_get_machine_id.py: path resolution, precondition  *)
(* checks, version gate and the regex patch of main.js with its backup and *)
(* temporary-file commit.                                                  *)
(*                                                                         *)
(* Text is modelled as a sequence of one-character strings.  In script     *)
(* text the two literal prefixes of the patterns are single tokens:        *)
(*   "H1" = `async getMachineId(){return `                                 *)
(*   "H2" = `async getMacMachineId(){return `                              *)
(* Neither literal contains `?` or `}`, neither overlaps itself or the     *)
(* other, so a regex match can only start at such a token.                 *)
(***************************************************************************)
EXTENDS Integers, Sequences, FiniteSets, TLC

VARIABLES
    v_version,   \* version_check: argument `version`
    v_min,       \* version_check: argument `min_version`
    v_max,       \* version_check: argument `max_version`
    v_done,      \* version_check: the call has returned
    v_result,    \* version_check: the value returned (FALSE before the call)
    p_input,     \* rule list: the text the first application started from
    p_outs,      \* rule list: the texts produced by successive applications
    pc,          \* position of the run of patch_cursor_get_machine_id
    system,      \* platform.system()
    localappdata,\* TRUE when the environment sets LOCALAPPDATA
    same_fs,     \* TRUE when the temporary directory and main.js share a filesystem
    fs,          \* the files: path -> [kind, w, data]
    fs0,         \* the files as they were when the run started
    pkg_path,    \* result of get_cursor_paths ("" before)
    main_path,   \* result of get_cursor_paths ("" before)
    version,     \* the descriptor's version field once read
    content,     \* modify_main_js: local `content`
    tmp_path,    \* modify_main_js: local `tmp_path`, "" while unassigned
    tmp_made,    \* NamedTemporaryFile has created the temporary file
    ret,         \* value returned by modify_main_js
    exit_code,   \* process exit status, -1 while running
    errors,      \* what logger.error has been given
    steps,       \* the pipeline steps that have succeeded, in order
    observed     \* what an external reader of main.js has seen

pvars == <<v_version, v_min, v_max, v_done, v_result, p_input, p_outs>>

rvars == <<pc, system, localappdata, same_fs, fs, fs0, pkg_path, main_path,
           version, content, tmp_path, tmp_made, ret, exit_code, errors,
           steps, observed>>

vars == <<pvars, rvars>>

(* ------------------------------ bounds -------------------------------- *)
MaxVerLen == 6
MaxSegs == 6
MaxRuns == 2

(* --------------------------- generic helpers -------------------------- *)
SeqsUpTo(S, n) == UNION {[1..k -> S] : k \in 0..n}

NoFile == [kind |-> "none", w |-> FALSE, data |-> <<>>]

\* the run variables while only a pure function is exercised
RunIdle ==
    /\ pc = "idle" /\ system = "" /\ localappdata = FALSE /\ same_fs = FALSE
    /\ fs = <<>> /\ fs0 = <<>> /\ pkg_path = "" /\ main_path = ""
    /\ version = <<>> /\ content = <<>> /\ tmp_path = ""
    /\ tmp_made = FALSE /\ ret = FALSE /\ exit_code = -1
    /\ errors = <<>> /\ steps = <<>> /\ observed = <<>>

(* ============================ version_check =========================== *)
Digits == {"0", "1", "2", "3", "4", "5", "6", "7", "8", "9"}

DigitVal(c) ==
    CASE c = "0" -> 0 [] c = "1" -> 1 [] c = "2" -> 2 [] c = "3" -> 3
      [] c = "4" -> 4 [] c = "5" -> 5 [] c = "6" -> 6 [] c = "7" -> 7
      [] c = "8" -> 8 [] c = "9" -> 9

IsDigits(s) == Len(s) >= 1 /\ \A i \in 1..Len(s) : s[i] \in Digits

\* positions of the dots of s
DotPositions(s) == {i \in 1..Len(s) : s[i] = "."}

\* \d+\.\d+\.\d+ over the whole of s
ThreeDigitRuns(s) ==
    \E i, j \in 1..Len(s) :
        /\ i < j
        /\ DotPositions(s) = {i, j}
        /\ IsDigits(SubSeq(s, 1, i - 1))
        /\ IsDigits(SubSeq(s, i + 1, j - 1))
        /\ IsDigits(SubSeq(s, j + 1, Len(s)))

\* re.match(r"^\d+\.\d+\.\d+$", s): without re.MULTILINE `$` matches at the
\* end of the string and also just before a newline that ends the string.
re_match_version_pattern(s) ==
    \/ ThreeDigitRuns(s)
    \/ /\ Len(s) >= 1
       /\ s[Len(s)] = "\n"
       /\ ThreeDigitRuns(SubSeq(s, 1, Len(s) - 1))

\* str.split("."): the pieces between the dots, empty pieces included
RECURSIVE split(_)
split(s) ==
    IF DotPositions(s) = {} THEN <<s>>
    ELSE LET i == CHOOSE p \in DotPositions(s) : \A q \in DotPositions(s) : p <= q
         IN  <<SubSeq(s, 1, i - 1)>> \o split(SubSeq(s, i + 1, Len(s)))

\* int(str) strips surrounding whitespace before it reads the digits
RECURSIVE strip(_)
strip(s) ==
    IF s = <<>> THEN s
    ELSE IF s[1] = "\n" THEN strip(Tail(s))
    ELSE IF s[Len(s)] = "\n" THEN strip(SubSeq(s, 1, Len(s) - 1))
    ELSE s

int_ok(s) == IsDigits(strip(s))

RECURSIVE DecVal(_)
DecVal(s) ==
    IF s = <<>> THEN 0
    ELSE 10 * DecVal(SubSeq(s, 1, Len(s) - 1)) + DigitVal(s[Len(s)])

int(s) == DecVal(strip(s))

\* parse_version raises ValueError when a piece is not an integer literal
parse_ok(ver) == \A i \in 1..Len(split(ver)) : int_ok(split(ver)[i])

parse_version(ver) == [i \in 1..Len(split(ver)) |-> int(split(ver)[i])]

\* Python's tuple `<`: the first differing position decides, a proper prefix
\* is smaller
tuple_lt(a, b) ==
    \/ \E i \in 1..Len(a) :
          /\ i <= Len(b)
          /\ a[i] < b[i]
          /\ \A k \in 1..(i - 1) : a[k] = b[k]
    \/ /\ Len(a) < Len(b)
       /\ \A k \in 1..Len(a) : a[k] = b[k]

\* version_check with exclusive bounds (`<=` for `<`, `>=` for `>`)
version_check_exclusive(ver, min_version, max_version) ==
    IF ~re_match_version_pattern(ver) THEN FALSE
    ELSE IF min_version # <<>> /\ ~parse_ok(min_version) THEN FALSE
    ELSE IF min_version # <<>>
            /\ ~tuple_lt(parse_version(min_version), parse_version(ver))
         THEN FALSE
    ELSE IF max_version # <<>> /\ ~parse_ok(max_version) THEN FALSE
    ELSE IF max_version # <<>>
            /\ ~tuple_lt(parse_version(ver), parse_version(max_version))
         THEN FALSE
    ELSE TRUE

version_check(ver, min_version, max_version) ==
    IF ~re_match_version_pattern(ver) THEN FALSE
    ELSE IF min_version # <<>> /\ ~parse_ok(min_version) THEN FALSE  \* except
    ELSE IF min_version # <<>>
            /\ tuple_lt(parse_version(ver), parse_version(min_version))
         THEN FALSE
    ELSE IF max_version # <<>> /\ ~parse_ok(max_version) THEN FALSE  \* except
    ELSE IF max_version # <<>>
            /\ tuple_lt(parse_version(max_version), parse_version(ver))
         THEN FALSE
    ELSE TRUE

(* --- specification of version_check over bounded inputs --- *)
VerChars == {"0", "1", ".", "\n", "a"}

MinBounds == { <<>>, <<"0", ".", "1", ".", "0">>, <<"1", ".", "0", ".", "1">> }
MaxBounds == { <<>>, <<"1", ".", "0", ".", "1">>, <<"1", ".", "1", ".", "0">> }

InitVersion ==
    /\ v_version \in SeqsUpTo(VerChars, MaxVerLen)
    /\ v_min \in MinBounds
    /\ v_max \in MaxBounds
    /\ v_done = FALSE
    /\ v_result = FALSE
    /\ p_input = <<>>
    /\ p_outs = <<>>
    /\ RunIdle

VersionCheckCall ==
    /\ ~v_done
    /\ v_done' = TRUE
    /\ v_result' = version_check(v_version, v_min, v_max)
    /\ UNCHANGED <<v_version, v_min, v_max, p_input, p_outs, rvars>>

NextVersion == VersionCheckCall

SpecVersion == InitVersion /\ [][NextVersion]_vars

(* ===================== the patterns of modify_main_js ================= *)
\* least index >= from at which s holds c, 0 when there is none
FirstAt(s, c, from) ==
    IF \E i \in from..Len(s) : s[i] = c
    THEN CHOOSE i \in from..Len(s) :
             s[i] = c /\ \A k \in from..(i - 1) : s[k] # c
    ELSE 0

\* where `[^??]+` hands over to `\?\?` for a match of
\* HEAD [^??]+ \?\? ([^}]+) \} that starts at i, 0 when there is no match.
\* The class [^??] is "any character but ?": the greedy run can only end at
\* the first `?` after the head, which must be followed by a second `?`.
match_qq(head, s, i) ==
    IF i > Len(s) \/ s[i] # head THEN 0
    ELSE LET j == FirstAt(s, "?", i + 1)
         IN  IF j >= i + 2 /\ j + 1 <= Len(s) /\ s[j + 1] = "?" THEN j ELSE 0

\* index of the `}` that ends the match starting at i, 0 when there is no
\* match: ([^}]+) is a non-empty run up to the first `}` after the `??`
match_end(head, s, i) ==
    LET j == match_qq(head, s, i)
    IN  IF j = 0 THEN 0
        ELSE LET k == FirstAt(s, "}", j + 2)
             IN  IF k >= j + 3 THEN k ELSE 0

\* group 1 opened one character early, taking in the second `?`
group1_early(head, s, i) ==
    SubSeq(s, match_qq(head, s, i) + 1, match_end(head, s, i) - 1)

\* group 1 of the match starting at i
group1(head, s, i) ==
    SubSeq(s, match_qq(head, s, i) + 2, match_end(head, s, i) - 1)

\* re.sub(pattern, replacement, content) from position i on: leftmost
\* non-overlapping matches, each replaced by HEAD \1 }
RECURSIVE sub_from(_, _, _)
sub_from(head, s, i) ==
    IF i > Len(s) THEN <<>>
    ELSE IF match_end(head, s, i) = 0
         THEN <<s[i]>> \o sub_from(head, s, i + 1)
         ELSE <<head>> \o group1(head, s, i) \o <<"}">>
                  \o sub_from(head, s, match_end(head, s, i) + 1)

re_sub(head, s) == sub_from(head, s, 1)

\* the positions at which re.sub, scanning from i, replaces a match
RECURSIVE span_starts(_, _, _)
span_starts(head, s, i) ==
    IF i > Len(s) THEN {}
    ELSE IF match_end(head, s, i) = 0 THEN span_starts(head, s, i + 1)
         ELSE {i} \cup span_starts(head, s, match_end(head, s, i) + 1)

\* for pattern, replacement in patterns.items(): content = re.sub(...)
apply_patterns(text) == re_sub("H2", re_sub("H1", text))

(* --- specification of the rule list over bounded inputs --- *)
Segments == { <<"H1">>, <<"H2">>, <<"?", "?">>, <<"?">>, <<"}">>, <<"a">> }

RECURSIVE Flatten(_)
Flatten(ss) == IF ss = <<>> THEN <<>> ELSE ss[1] \o Flatten(Tail(ss))

\* `async getMachineId(){return a ?? b}` and its getMacMachineId twin, and
\* the same without blanks
ScenarioSpaced(head) == <<head, "a", " ", "?", "?", " ", "b", "}">>
ScenarioTight(head) == <<head, "a", "?", "?", "b", "}">>

\* a chained fallback, `async getMachineId(){return a??b??c}`
ScenarioChained(head) == <<head, "a", "?", "?", "b", "?", "?", "c", "}">>
\* a body without `??` followed by a getMacMachineId definition with one
ScenarioLaterMac == <<"H1", "a", "}", "H2", "a", "?", "?", "b", "}">>

Scenarios ==
    {ScenarioSpaced("H1"), ScenarioSpaced("H2"),
     ScenarioTight("H1"), ScenarioTight("H2"),
     ScenarioChained("H1"), ScenarioChained("H2"), ScenarioLaterMac}

PatchInputs ==
    {Flatten(ss) : ss \in SeqsUpTo(Segments, MaxSegs)} \cup Scenarios

p_text == IF p_outs = <<>> THEN p_input ELSE p_outs[Len(p_outs)]

InitPatch ==
    /\ p_input \in PatchInputs
    /\ p_outs = <<>>
    /\ v_version = <<>> /\ v_min = <<>> /\ v_max = <<>>
    /\ v_done = FALSE /\ v_result = FALSE
    /\ RunIdle

ApplyRules ==
    /\ Len(p_outs) < MaxRuns
    /\ p_outs' = Append(p_outs, apply_patterns(p_text))
    /\ UNCHANGED <<p_input, v_version, v_min, v_max, v_done, v_result, rvars>>

NextPatch == ApplyRules

SpecPatch == InitPatch /\ [][NextPatch]_vars

(* ============================ the file system ========================= *)
\* os.path.join
join(base, rel) == base \o "/" \o rel

DarwinBase == "/Applications/Cursor.app/Contents/Resources/app"
\* os.getenv("LOCALAPPDATA", "") joined with Programs/Cursor/resources/app
WindowsBase(la) ==
    IF la THEN "%LOCALAPPDATA%/Programs/Cursor/resources/app"
    ELSE "Programs/Cursor/resources/app"
LinuxBases == <<"/opt/Cursor/resources/app", "/usr/share/cursor/resources/app">>

PackageRel == "package.json"
MainRel == "out/main.js"

Bases ==
    {DarwinBase, WindowsBase(TRUE), WindowsBase(FALSE),
     LinuxBases[1], LinuxBases[2]}

\* the name NamedTemporaryFile picks in the default temporary directory
TmpName == "$TMPDIR/tmpXXXXXXXX"

AllPaths ==
    {join(b, PackageRel) : b \in Bases} \cup {join(b, MainRel) : b \in Bases}
        \cup {join(b, MainRel) \o ".old" : b \in Bases} \cup {TmpName}

File(writable, bytes) == [kind |-> "file", w |-> writable, data |-> bytes]
Dir == [kind |-> "dir", w |-> TRUE, data |-> <<>>]

isfile(files, path) == files[path].kind = "file"
exists(files, path) == files[path].kind # "none"
\* os.access(path, os.W_OK)
access_w(files, path) == files[path].kind # "none" /\ files[path].w

(* ============================ get_cursor_paths ======================== *)
Supported == {"Darwin", "Windows", "Linux"}

\* [ok, pkg, main]: ok is FALSE where the function raises OSError
get_cursor_paths(sys, la, files) ==
    IF sys \notin Supported THEN [ok |-> FALSE, pkg |-> "", main |-> ""]
    ELSE IF sys = "Linux" THEN
        IF \E i \in 1..Len(LinuxBases) : exists(files, join(LinuxBases[i], PackageRel))
        THEN LET i == CHOOSE k \in 1..Len(LinuxBases) :
                        /\ exists(files, join(LinuxBases[k], PackageRel))
                        /\ \A l \in 1..(k - 1) :
                               ~exists(files, join(LinuxBases[l], PackageRel))
             IN  [ok |-> TRUE, pkg |-> join(LinuxBases[i], PackageRel),
                  main |-> join(LinuxBases[i], MainRel)]
        ELSE [ok |-> FALSE, pkg |-> "", main |-> ""]
    ELSE LET base_path == IF sys = "Darwin" THEN DarwinBase ELSE WindowsBase(la)
         IN  [ok |-> TRUE, pkg |-> join(base_path, PackageRel),
              main |-> join(base_path, MainRel)]

(* ======================== check_system_requirements =================== *)
Err(m, path) == [msg |-> m, path |-> path]

\* the errors one pass of the loop body logs for file_path: the body
\* returns False at the first test that fails
check_file(files, file_path) ==
    IF ~isfile(files, file_path) THEN <<Err("not a file", file_path)>>
    ELSE IF ~access_w(files, file_path) THEN <<Err("no write permission", file_path)>>
    ELSE <<>>

\* check_system_requirements that tests both files whatever the first gives
check_system_requirements_all(files, pkg, main) ==
    check_file(files, pkg) \o check_file(files, main)

\* what check_system_requirements logs; it returns True iff this is empty.
\* `return False` inside the loop leaves the function: main_path is looked
\* at only when pkg_path passed both tests.
check_system_requirements(files, pkg, main) ==
    IF check_file(files, pkg) # <<>> THEN check_file(files, pkg)
    ELSE check_file(files, main)

(* ===================== patch_cursor_get_machine_id ==================== *)
MinVersion == <<"0", ".", "4", "5", ".", "0">>

\* sys.exit(1), directly or through `except Exception`
Exit1(err) ==
    /\ pc' = "exit"
    /\ exit_code' = 1
    /\ errors' = errors \o err

ResolvePaths ==
    /\ pc = "start"
    /\ LET r == get_cursor_paths(system, localappdata, fs)
       IN  IF r.ok
           THEN /\ pkg_path' = r.pkg
                /\ main_path' = r.main
                /\ pc' = "resolved"
                /\ steps' = Append(steps, "paths")
                /\ UNCHANGED <<exit_code, errors>>
           ELSE /\ Exit1(<<Err("OSError", "")>>)
                /\ UNCHANGED <<pkg_path, main_path, steps>>
    /\ UNCHANGED <<pvars, system, localappdata, same_fs, fs, fs0, version,
                   content, tmp_path, tmp_made, ret, observed>>

CheckRequirements ==
    /\ pc = "resolved"
    /\ LET errs == check_system_requirements(fs, pkg_path, main_path)
       IN  IF errs = <<>>
           THEN /\ pc' = "checked"
                /\ steps' = Append(steps, "requirements")
                /\ UNCHANGED <<exit_code, errors>>
           ELSE /\ Exit1(errs)
                /\ UNCHANGED steps
    /\ UNCHANGED <<pvars, system, localappdata, same_fs, fs, fs0, pkg_path,
                   main_path, version, content, tmp_path, tmp_made, ret,
                   observed>>

\* json.load(f)["version"]: raises when the file is not JSON or has no
\* "version" key
ReadVersion ==
    /\ pc = "checked"
    /\ LET d == fs[pkg_path].data
       IN  IF d.json /\ d.has
           THEN /\ version' = d.version
                /\ pc' = "versioned"
                /\ steps' = Append(steps, "version")
                /\ UNCHANGED <<exit_code, errors>>
           ELSE /\ Exit1(<<Err("cannot read version", pkg_path)>>)
                /\ UNCHANGED <<version, steps>>
    /\ UNCHANGED <<pvars, system, localappdata, same_fs, fs, fs0, pkg_path,
                   main_path, content, tmp_path, tmp_made, ret, observed>>

\* CheckVersion without the sys.exit(1): the failure is logged and the run
\* goes on
CheckVersion_no_exit ==
    /\ pc = "versioned"
    /\ pc' = "modify"
    /\ IF version_check(version, MinVersion, <<>>)
       THEN /\ steps' = Append(steps, "version_check")
            /\ UNCHANGED errors
       ELSE /\ errors' = Append(errors, Err("version not supported", ""))
            /\ UNCHANGED steps
    /\ UNCHANGED <<pvars, system, localappdata, same_fs, fs, fs0, pkg_path,
                   main_path, version, content, tmp_path, tmp_made, ret,
                   observed, exit_code>>

CheckVersion ==
    /\ pc = "versioned"
    /\ IF version_check(version, MinVersion, <<>>)
       THEN /\ pc' = "modify"
            /\ steps' = Append(steps, "version_check")
            /\ UNCHANGED <<exit_code, errors>>
       ELSE /\ Exit1(<<Err("version not supported", "")>>)
            /\ UNCHANGED steps
    /\ UNCHANGED <<pvars, system, localappdata, same_fs, fs, fs0, pkg_path,
                   main_path, version, content, tmp_path, tmp_made, ret,
                   observed>>

(* ============================ modify_main_js ========================== *)
\* a byte that is not valid UTF-8
BadByte == "0xFF"

\* open(main_path, "r", encoding="utf-8").read() raises UnicodeDecodeError
decode_ok(bytes) == \A i \in 1..Len(bytes) : bytes[i] # BadByte

\* text mode with newline=None: \r\n and a lone \r are read as \n
RECURSIVE read_text(_)
read_text(bytes) ==
    IF bytes = <<>> THEN <<>>
    ELSE IF bytes[1] = "\r"
         THEN IF Len(bytes) >= 2 /\ bytes[2] = "\n"
              THEN <<"\n">> \o read_text(SubSeq(bytes, 3, Len(bytes)))
              ELSE <<"\n">> \o read_text(Tail(bytes))
         ELSE <<bytes[1]>> \o read_text(Tail(bytes))

\* os.linesep
linesep(sys) == IF sys = "Windows" THEN <<"\r", "\n">> ELSE <<"\n">>

\* tmp_file.write(content) in mode "w": \n is written as os.linesep
RECURSIVE write_text(_, _)
write_text(sys, text) ==
    IF text = <<>> THEN <<>>
    ELSE (IF text[1] = "\n" THEN linesep(sys) ELSE <<text[1]>>)
             \o write_text(sys, Tail(text))

\* what a write that failed part-way may have left behind
Prefixes(bytes) == {SubSeq(bytes, 1, k) : k \in 0..(Len(bytes) - 1)}

\* os.rename(tmp, main_path) can only succeed within one filesystem, and on
\* Windows it refuses to replace an existing file
can_rename == same_fs /\ system # "Windows"

modframe == <<pvars, system, localappdata, same_fs, fs0, pkg_path, main_path,
              version, exit_code, steps, observed>>

\* tempfile.NamedTemporaryFile(mode="w", delete=False)
CreateTmp ==
    /\ pc = "modify"
    /\ \/ /\ fs' = [fs EXCEPT ![TmpName] = File(TRUE, <<>>)]
          /\ tmp_made' = TRUE
          /\ pc' = "tmp_open"
          /\ UNCHANGED errors
       \/ /\ pc' = "except"                             \* no temporary file
          /\ errors' = Append(errors, Err("modify failed", TmpName))
          /\ UNCHANGED <<fs, tmp_made>>
    /\ UNCHANGED <<modframe, content, tmp_path, ret>>

\* with open(main_path, "r", encoding="utf-8") as main_file: content = read()
ReadMain ==
    /\ pc = "tmp_open"
    /\ IF decode_ok(fs[main_path].data)
       THEN /\ content' = read_text(fs[main_path].data)
            /\ pc' = "read"
            /\ UNCHANGED errors
       ELSE /\ pc' = "except"
            /\ errors' = Append(errors, Err("modify failed", main_path))
            /\ UNCHANGED content
    /\ UNCHANGED <<modframe, fs, tmp_path, tmp_made, ret>>

\* for pattern, replacement in patterns.items(): content = re.sub(...)
Substitute ==
    /\ pc = "read"
    /\ content' = apply_patterns(content)
    /\ pc' = "subbed"
    /\ UNCHANGED <<modframe, fs, tmp_path, tmp_made, ret, errors>>

\* tmp_file.write(content); tmp_path = tmp_file.name; leaving the `with`
\* block closes (and flushes) the file.  A failure inside write() comes
\* before tmp_path is assigned, a failure of the flush at close after it.
WriteTmp ==
    /\ pc = "subbed"
    /\ \/ /\ fs' = [fs EXCEPT ![TmpName].data = write_text(system, content)]
          /\ tmp_path' = TmpName
          /\ pc' = "written"
          /\ UNCHANGED errors
       \/ \E part \in Prefixes(write_text(system, content)) :
             /\ fs' = [fs EXCEPT ![TmpName].data = part]
             /\ tmp_path' \in {"", TmpName}
             /\ pc' = "except"
             /\ errors' = Append(errors, Err("modify failed", TmpName))
    /\ UNCHANGED <<modframe, content, tmp_made, ret>>

\* CopyBackup that copies the temporary file instead of main_path
CopyBackup_of_tmp ==
    /\ pc = "written"
    /\ fs' = [fs EXCEPT ![main_path \o ".old"] =
                          File(fs[tmp_path].w, fs[tmp_path].data)]
    /\ pc' = "backed_up"
    /\ UNCHANGED <<modframe, content, tmp_path, tmp_made, ret, errors>>

\* shutil.copy2(main_path, main_path + ".old")
CopyBackup ==
    /\ pc = "written"
    /\ \/ /\ fs' = [fs EXCEPT ![main_path \o ".old"] =
                                File(fs[main_path].w, fs[main_path].data)]
          /\ pc' = "backed_up"
          /\ UNCHANGED errors
       \/ /\ \/ UNCHANGED fs                           \* could not open
             \/ \E part \in Prefixes(fs[main_path].data) :
                   fs' = [fs EXCEPT ![main_path \o ".old"] = File(TRUE, part)]
          /\ pc' = "except"
          /\ errors' = Append(errors, Err("modify failed", main_path \o ".old"))
    /\ UNCHANGED <<modframe, content, tmp_path, tmp_made, ret>>

\* shutil.move(tmp_path, main_path), os.rename succeeds
MoveRename ==
    /\ pc = "backed_up"
    /\ can_rename
    /\ fs' = [fs EXCEPT ![main_path] = fs[tmp_path], ![tmp_path] = NoFile]
    /\ pc' = "moved"
    /\ UNCHANGED <<modframe, content, tmp_path, tmp_made, ret, errors>>

\* shutil.move, os.rename raised OSError: copy2(tmp_path, main_path) opens
\* main_path for writing, which truncates it
MoveCopyOpen ==
    /\ pc = "backed_up"
    /\ \/ /\ fs' = [fs EXCEPT ![main_path].data = <<>>]
          /\ pc' = "move_copying"
          /\ UNCHANGED errors
       \/ /\ pc' = "except"                             \* could not open
          /\ errors' = Append(errors, Err("modify failed", main_path))
          /\ UNCHANGED fs
    /\ UNCHANGED <<modframe, content, tmp_path, tmp_made, ret>>

\* shutil.move, copy2 writes the bytes of the temporary file
MoveCopyData ==
    /\ pc = "move_copying"
    /\ \/ /\ fs' = [fs EXCEPT ![main_path] = File(TRUE, fs[tmp_path].data)]
          /\ pc' = "move_copied"
          /\ UNCHANGED errors
       \/ \E part \in Prefixes(fs[tmp_path].data) :
             /\ fs' = [fs EXCEPT ![main_path].data = part]
             /\ pc' = "except"
             /\ errors' = Append(errors, Err("modify failed", main_path))
    /\ UNCHANGED <<modframe, content, tmp_path, tmp_made, ret>>

\* shutil.move, os.unlink(src) after the copy
MoveUnlink ==
    /\ pc = "move_copied"
    /\ fs' = [fs EXCEPT ![tmp_path] = NoFile]
    /\ pc' = "moved"
    /\ UNCHANGED <<modframe, content, tmp_path, tmp_made, ret, errors>>

\* logger.info(...); return True
ReturnTrue ==
    /\ pc = "moved"
    /\ ret' = TRUE
    /\ pc' = "modify_returned"
    /\ UNCHANGED <<modframe, fs, content, tmp_path, tmp_made, errors>>

\* except Exception: if "tmp_path" in locals(): os.unlink(tmp_path);
\* return False
ExceptHandler ==
    /\ pc = "except"
    /\ fs' = IF tmp_path # "" THEN [fs EXCEPT ![tmp_path] = NoFile] ELSE fs
    /\ ret' = FALSE
    /\ pc' = "modify_returned"
    /\ UNCHANGED <<modframe, content, tmp_path, tmp_made, errors>>

\* if not modify_main_js(main_path): sys.exit(1)
Finish ==
    /\ pc = "modify_returned"
    /\ pc' = "exit"
    /\ exit_code' = IF ret THEN 0 ELSE 1
    /\ steps' = IF ret THEN Append(steps, "modify") ELSE steps
    /\ UNCHANGED <<pvars, system, localappdata, same_fs, fs, fs0, pkg_path,
                   main_path, version, content, tmp_path, tmp_made, ret,
                   errors, observed>>

\* another process reads main.js while the run is under way
ExternalRead ==
    /\ pc \notin {"idle", "start", "exit"}
    /\ observed = <<>>
    /\ isfile(fs, main_path)
    /\ observed' = <<fs[main_path].data>>
    /\ UNCHANGED <<pvars, pc, system, localappdata, same_fs, fs, fs0,
                   pkg_path, main_path, version, content, tmp_path, tmp_made,
                   ret, exit_code, errors, steps>>

(* --- the installations a run may find --- *)
Descriptor(v) == [json |-> TRUE, has |-> TRUE, version |-> v]
NotJson == [json |-> FALSE, has |-> FALSE, version |-> <<>>]
NoVersionKey == [json |-> TRUE, has |-> FALSE, version |-> <<>>]

Descriptors ==
    {NotJson, NoVersionKey,
     Descriptor(<<"0", ".", "4", "5", ".", "0">>),
     Descriptor(<<"0", ".", "4", "6", ".", "1", "1">>),
     Descriptor(<<"0", ".", "4", "4", ".", "1", "2">>),
     Descriptor(<<"0", ".", "5", ".", "0">>),
     Descriptor(<<"0", ".", "4", "5">>)}

Scripts ==
    {ScenarioTight("H1"),
     <<"H1", "a", "}">>,
     <<"H2", "a", "?", "?", "b", "}", "\r", "\n">>,
     <<"H1", "a", "?", "?", "b", "}", BadByte>>}

PkgEntries ==
    {NoFile, Dir, File(FALSE, Descriptor(MinVersion))}
        \cup {File(TRUE, d) : d \in Descriptors}
MainEntries ==
    {NoFile, Dir, File(FALSE, ScenarioTight("H1"))}
        \cup {File(TRUE, t) : t \in Scripts}
OldEntries == {NoFile, File(TRUE, <<"a">>)}

NoFiles == [p \in AllPaths |-> NoFile]

Install(files, base, pkg, main, old) ==
    [files EXCEPT ![join(base, PackageRel)] = pkg,
                  ![join(base, MainRel)] = main,
                  ![join(base, MainRel) \o ".old"] = old]

\* the installations of a host of the given platform
Hosts(sys, la) ==
    IF sys = "Darwin" THEN
        {Install(NoFiles, DarwinBase, p, m, o) :
            p \in PkgEntries, m \in MainEntries, o \in OldEntries}
    ELSE IF sys = "Windows" THEN
        {Install(NoFiles, WindowsBase(la), p, m, o) :
            p \in PkgEntries, m \in MainEntries, o \in OldEntries}
    ELSE IF sys = "Linux" THEN
        {Install(Install(NoFiles, LinuxBases[1], p, m, o), LinuxBases[2],
                 q[1], q[2], NoFile) :
            p \in PkgEntries, m \in MainEntries, o \in OldEntries,
            q \in {<<NoFile, NoFile>>,
                   <<File(TRUE, Descriptor(MinVersion)),
                     File(TRUE, ScenarioTight("H2"))>>}}
    ELSE {NoFiles}

Init ==
    /\ v_version = <<>> /\ v_min = <<>> /\ v_max = <<>>
    /\ v_done = FALSE /\ v_result = FALSE
    /\ p_input = <<>> /\ p_outs = <<>>
    /\ pc = "start"
    /\ system \in Supported \cup {"FreeBSD"}
    /\ localappdata \in (IF system = "Windows" THEN BOOLEAN ELSE {FALSE})
    /\ same_fs \in BOOLEAN
    /\ fs \in Hosts(system, localappdata)
    /\ fs0 = fs
    /\ pkg_path = "" /\ main_path = ""
    /\ version = <<>> /\ content = <<>> /\ tmp_path = ""
    /\ tmp_made = FALSE /\ ret = FALSE /\ exit_code = -1
    /\ errors = <<>> /\ steps = <<>> /\ observed = <<>>

Next ==
    \/ ResolvePaths
    \/ CheckRequirements
    \/ ReadVersion
    \/ CheckVersion
    \/ CreateTmp
    \/ ReadMain
    \/ Substitute
    \/ WriteTmp
    \/ CopyBackup
    \/ MoveRename
    \/ MoveCopyOpen
    \/ MoveCopyData
    \/ MoveUnlink
    \/ ReturnTrue
    \/ ExceptHandler
    \/ Finish
    \/ ExternalRead

Spec == Init /\ [][Next]_vars

(* ================================ claims ============================== *)
Range(q) == {q[i] : i \in 1..Len(q)}

OldPath == main_path \o ".old"
\* main.js as the run found it, and what the run is to leave in it
Original == fs0[main_path].data
Transformed == write_text(system, apply_patterns(read_text(Original)))

\* C1: when modify_main_js returns False after the temporary file was
\* created, the temporary file is gone and main.js holds its original bytes.
C1_FailureRestores ==
    (pc = "modify_returned" /\ ~ret /\ tmp_made)
        => /\ fs[TmpName].kind = "none"
           /\ fs[main_path].data = Original

\* C2: when modify_main_js returns True, main.js.old is a file holding the
\* bytes main.js had when the run started, and main.js holds the transformed
\* text as written.
C2_BackupFidelity ==
    (pc = "modify_returned" /\ ret)
        => /\ isfile(fs, OldPath)
           /\ fs[OldPath].data = Original
           /\ fs[main_path].data = Transformed

\* a successful run over a script that matched a rule and replaced a stale
\* backup
C2_Witness ==
    /\ pc = "modify_returned" /\ ret
    /\ fs[main_path].data # Original
    /\ fs0[OldPath].kind = "file"
    /\ fs[OldPath].data = Original

\* C3: a second application of the rule list leaves the text the first
\* application produced.
C3_Idempotent == Len(p_outs) >= 2 => p_outs[2] = p_outs[1]

\* C4 as stated: `HEAD a ?? b}` becomes exactly `HEAD b}`.
C4_ScenarioExact ==
    \A h \in {"H1", "H2"} :
        (p_input = ScenarioSpaced(h) /\ Len(p_outs) >= 1)
            => p_outs[1] = <<h, "b", "}">>

\* C4 amended: `HEAD a ?? b}` becomes `HEAD` + ` b` + `}`, the blank after
\* `??` being part of the group that is kept; `HEAD a??b}` becomes `HEAD b}`.
C4_ScenarioKeepsGroup ==
    \A h \in {"H1", "H2"} :
        /\ (p_input = ScenarioSpaced(h) /\ Len(p_outs) >= 1)
              => p_outs[1] = <<h, " ", "b", "}">>
        /\ (p_input = ScenarioTight(h) /\ Len(p_outs) >= 1)
              => p_outs[1] = <<h, "b", "}">>

C4_Witness == p_input = ScenarioSpaced("H1") /\ Len(p_outs) = 1

CheckFailed == pc = "exit" /\ steps = <<"paths">>

\* C5 as stated: a failed check with a missing descriptor and a read-only
\* script has reported the script's permission failure.
C5_BothFilesChecked ==
    (CheckFailed /\ ~isfile(fs, pkg_path)
        /\ isfile(fs, main_path) /\ ~access_w(fs, main_path))
        => Err("no write permission", main_path) \in Range(errors)

\* C5 amended: a failed check reports exactly one failure, that of the
\* first file in the order descriptor, script that fails a test; the script
\* is reported only when the descriptor is a writable regular file.
C5_FirstFailureOnly ==
    CheckFailed
        => /\ Len(errors) = 1
           /\ errors[1].path =
                 (IF isfile(fs, pkg_path) /\ access_w(fs, pkg_path)
                  THEN main_path ELSE pkg_path)
           /\ errors[1].msg =
                 (IF isfile(fs, errors[1].path)
                  THEN "no write permission" ELSE "not a file")

C5_Witness ==
    /\ CheckFailed
    /\ ~isfile(fs, pkg_path)
    /\ isfile(fs, main_path) /\ ~access_w(fs, main_path)

PipelineOrder == <<"paths", "requirements", "version", "version_check", "modify">>

\* C6: the steps succeed in the fixed order; no file is created or changed
\* and nothing of modify_main_js has run unless path resolution, the
\* file checks, the version read and version_check against 0.45.0 have all
\* succeeded; a run that ends before that exits with status 1 and has left
\* every file as it was.
C6_GatedPipeline ==
    /\ Len(steps) <= Len(PipelineOrder)
    /\ steps = SubSeq(PipelineOrder, 1, Len(steps))
    /\ (fs # fs0 \/ tmp_made \/ content # <<>> \/ pc = "modify")
          => Len(steps) >= 4
    /\ Len(steps) >= 2
          => \A f \in {pkg_path, main_path} : isfile(fs0, f) /\ access_w(fs0, f)
    /\ Len(steps) >= 3 => version = fs0[pkg_path].data.version
    /\ Len(steps) < 3 => version = <<>>
    /\ Len(steps) >= 4 => version_check(version, MinVersion, <<>>)
    /\ (pc = "exit" /\ Len(steps) < 4) => (exit_code = 1 /\ fs = fs0)
    /\ (pc = "exit") = (exit_code # -1)

\* the version gate has turned a run away
C6_Witness ==
    /\ pc = "exit" /\ exit_code = 1
    /\ steps = <<"paths", "requirements", "version">>
    /\ version # <<>>

\* the (major, minor, patch) of a well-formed version
VersionTriple(s) ==
    LET i == CHOOSE p \in DotPositions(s) : \A q \in DotPositions(s) : p <= q
        j == CHOOSE p \in DotPositions(s) : \A q \in DotPositions(s) : p >= q
    IN  <<DecVal(SubSeq(s, 1, i - 1)), DecVal(SubSeq(s, i + 1, j - 1)),
          DecVal(SubSeq(s, j + 1, Len(s)))>>

LexLeq(a, b) ==
    \/ a[1] < b[1]
    \/ a[1] = b[1] /\ a[2] < b[2]
    \/ a[1] = b[1] /\ a[2] = b[2] /\ a[3] <= b[3]

\* C7: for a well-formed version, version_check returns True exactly when
\* min_version <= version <= max_version in the lexicographic order of
\* (major, minor, patch), an empty bound imposing nothing.
C7_InclusiveBounds ==
    (v_done /\ ThreeDigitRuns(v_version))
        => v_result =
             (/\ v_min = <<>> \/ LexLeq(VersionTriple(v_min), VersionTriple(v_version))
              /\ v_max = <<>> \/ LexLeq(VersionTriple(v_version), VersionTriple(v_max)))

\* a version equal to the lower bound, with an upper bound present, passes
C7_Witness ==
    /\ v_done /\ v_result
    /\ v_min # <<>> /\ v_max # <<>>
    /\ v_version = v_min

\* C8: a version that is not digits.digits.digits is refused.
C8_InvalidRefused ==
    (v_done /\ ~ThreeDigitRuns(v_version)) => v_result = FALSE

\* C9: whatever an external reader of main.js sees during a run is the
\* complete original or the complete transformed content.
C9_AtomicReplace ==
    \A i \in 1..Len(observed) : observed[i] \in {Original, Transformed}

\* C10: every span a rule replaces ends at the first `}` after the head it
\* starts with.
C10_ConfinedToBody ==
    Len(p_outs) >= 1
        => /\ \A i \in span_starts("H1", p_input, 1) :
                 match_end("H1", p_input, i) = FirstAt(p_input, "}", i + 1)
           /\ \A i \in span_starts("H2", re_sub("H1", p_input), 1) :
                 match_end("H2", re_sub("H1", p_input), i)
                     = FirstAt(re_sub("H1", p_input), "}", i + 1)

====
